---- MODULE Spec2Model ----
(***************************************************************************)
(* Model of the UFO agent lifecycle: the app-agent state machine of        *)
(* ufo/agents/states/app_agent_state.py and the step-processing template   *)
(* BaseProcessor.process of ufo/module/processors/basic.py.                *)
(*                                                                         *)
(* The state registry (AgentStateManager.register / get_state), the agent  *)
(* (AppAgent.process / process_resume), the driver loop and the bodies of  *)
(* the abstract pipeline stages live outside these two files; they are     *)
(* modelled from the specification of the repository.                      *)
(***************************************************************************)
EXTENDS Integers, Sequences, FiniteSets, TLC

\* ------------------------------------------------------------------ bounds
MaxRounds == 2        \* dispatches of the app agent by the host side
MaxHandleCalls == 2   \* times the driver invokes handle on one state

\* ------------------------------------------------------- AppAgentStatus
AppAgentStatus ==
    {"ERROR", "FINISH", "SWITCH", "CONTINUE", "FAIL", "PENDING", "CONFIRM",
     "SCREENSHOT"}

\* Status strings an agent or a processor may carry: the enumerated codes,
\* the empty string and a string that is no status code.
StatusStrings == AppAgentStatus \cup {"", "BOGUS"}

\* ------------------------------------------------------------ the classes
AppClasses ==
    {"FinishAppAgentState", "ContinueAppAgentState", "ScreenshotAppAgentState",
     "SwitchAppAgentState", "PendingAppAgentState", "ConfirmAppAgentState",
     "ErrorAppAgentState", "FailAppAgentState", "NoneAppAgentState"}

HostClasses ==
    {"ContinueHostAgentState", "FinishHostAgentState", "NoneHostAgentState"}

\* The classes carrying @AppAgentStateManager.register, in file order.
DecoratedClasses ==
    << "FinishAppAgentState", "ContinueAppAgentState",
       "ScreenshotAppAgentState", "SwitchAppAgentState",
       "PendingAppAgentState", "ConfirmAppAgentState",
       "ErrorAppAgentState", "FailAppAgentState", "NoneAppAgentState" >>

\* name() with ScreenshotAppAgentState left to inherit it from its base
\* class ContinueAppAgentState.
name_inherited(cls) ==
    CASE cls = "FinishAppAgentState"     -> "FINISH"
      [] cls = "ContinueAppAgentState"   -> "CONTINUE"
      [] cls = "ScreenshotAppAgentState" -> "CONTINUE"
      [] cls = "SwitchAppAgentState"     -> "SWITCH"
      [] cls = "PendingAppAgentState"    -> "PENDING"
      [] cls = "ConfirmAppAgentState"    -> "CONFIRM"
      [] cls = "ErrorAppAgentState"      -> "ERROR"
      [] cls = "FailAppAgentState"       -> "FAIL"
      [] cls = "NoneAppAgentState"       -> ""

\* cls.name()
name(cls) ==
    CASE cls = "FinishAppAgentState"     -> "FINISH"
      [] cls = "ContinueAppAgentState"   -> "CONTINUE"
      [] cls = "ScreenshotAppAgentState" -> "SCREENSHOT"
      [] cls = "SwitchAppAgentState"     -> "SWITCH"
      [] cls = "PendingAppAgentState"    -> "PENDING"
      [] cls = "ConfirmAppAgentState"    -> "CONFIRM"
      [] cls = "ErrorAppAgentState"      -> "ERROR"
      [] cls = "FailAppAgentState"       -> "FAIL"
      [] cls = "NoneAppAgentState"       -> ""

\* AppAgentStateManager.none_state: the NoneAppAgentState variant.
none_state == "NoneAppAgentState"

\* Number of arguments (besides self) the constructor of a state class takes:
\* ConfirmAppAgentState.__init__(self) takes none, the other classes inherit
\* the constructor bound to the owner agent.
CtorArity(cls) == IF cls = "ConfirmAppAgentState" THEN 0 ELSE 1

\* cls(*args): an instance of cls, or the TypeError of an arity mismatch.
Instantiate(cls, nargs) == IF nargs = CtorArity(cls) THEN cls ELSE "TypeError"

\* next_agent with SwitchAppAgentState left to inherit "return agent".
next_agent_default(cls) ==
    IF cls \in {"FinishAppAgentState", "ErrorAppAgentState",
                "FailAppAgentState", "NoneAppAgentState"}
    THEN "host"
    ELSE "app"

\* next_agent with FailAppAgentState left to inherit "return agent".
next_agent_failself(cls) ==
    IF cls \in {"FinishAppAgentState", "SwitchAppAgentState",
                "ErrorAppAgentState", "NoneAppAgentState"}
    THEN "host"
    ELSE "app"

\* state.next_agent(agent), by class of the state.
next_agent(cls) ==
    IF cls \in {"FinishAppAgentState", "SwitchAppAgentState",
                "ErrorAppAgentState", "FailAppAgentState", "NoneAppAgentState"}
    THEN "host"
    ELSE "app"

\* The classes overriding next_state with a fixed host state class.
HandOffClasses ==
    {"FinishAppAgentState", "SwitchAppAgentState", "ErrorAppAgentState",
     "FailAppAgentState", "NoneAppAgentState"}

\* The overriding next_state of the hand-off classes.
FixedNextState(cls) ==
    CASE cls = "FinishAppAgentState" -> "FinishHostAgentState"
      [] cls = "SwitchAppAgentState" -> "ContinueHostAgentState"
      [] cls = "ErrorAppAgentState"  -> "FinishHostAgentState"
      [] cls = "FailAppAgentState"   -> "FinishHostAgentState"
      [] cls = "NoneAppAgentState"   -> "NoneHostAgentState"

\* is_round_end with FailAppAgentState answering as ErrorAppAgentState does.
is_round_end_fail(cls) ==
    cls \in {"ErrorAppAgentState", "NoneAppAgentState", "FailAppAgentState"}

\* is_round_end with ErrorAppAgentState answering as FailAppAgentState does.
is_round_end_noerror(cls) == cls \in {"NoneAppAgentState"}

\* state.is_round_end(), by class of the state.
is_round_end(cls) == cls \in {"ErrorAppAgentState", "NoneAppAgentState"}

\* The machine a state class belongs to: the subclasses of AppAgentState
\* and the host state classes imported from host_agent_state.
RoleOf(cls) ==
    IF cls \in AppClasses THEN "app"
    ELSE IF cls \in HostClasses THEN "host"
    ELSE "none"

\* Truth value Python gives the result of user_confirm().
Truthy(c) == c = "True"

\* Results of user_confirm(): the placeholder body returns None; a concrete
\* confirmation source answers True or False.
UserConfirmResults == {"None", "True", "False"}

\* BaseProcessor.is_error
is_error(s) == s = "ERROR"

\* The stages of process() in the order of the template.
StageOrder(create) ==
    << "print_step_info", "capture_screenshot", "get_control_info",
       "get_prompt_message", "get_response", "is_error", "parse_response",
       "is_error", "execute_action", "update_memory",
       "should_create_appagent" >>
    \o (IF create THEN << "create_app_agent" >> ELSE << >>)
    \o << "update_step_and_status" >>

\* ----------------------------------------------------------------- state
VARIABLES
    mapping,        \* AppAgentStateManager._state_mapping: name -> class
    loadIdx,        \* next decorated class to register while the module loads
    regResult,      \* outcome of the last register call
    active,         \* the agent the driver runs: "app" or "host"
    curState,       \* class of the state currently assigned to that agent
    agentStatus,    \* AppAgent.status
    confirm,        \* ConfirmAppAgentState._confirm
    drv,            \* position of the driver loop
    handleCalls,    \* handle calls made on the current state
    nProcess,       \* agent.process calls made by the last handle call
    nResume,        \* agent.process_resume calls made by the last handle call
    statusBefore,   \* agent status when the last handle call started
    declinedOnly,   \* every handle call on the current state was declined
    statusAtEntry,  \* agent status when the current state was assigned
    lastState,      \* class of the state the last transition left
    lastStatus,     \* agent status the last transition read
    rounds,         \* dispatches of the app agent so far
    pc,             \* position inside BaseProcessor.process
    status,         \* BaseProcessor._status
    step,           \* BaseProcessor._step
    prev_status,    \* BaseProcessor.prev_status
    createPolicy,   \* what should_create_appagent returns for this processor
    calls,          \* the stages invoked by this invocation of process
    statusAfterResponse, \* _status when get_response returned
    statusAfterParse,    \* _status when parse_response returned
    respRes,        \* outcome of the model invocation
    parseRes,       \* outcome of decoding the response
    execRes,        \* outcome of applying the action
    computed,       \* the status update_status computed
    stepAtUpdateStatus,  \* _step when update_status was invoked
    statusHist,     \* what the stages did to _status in this invocation
    shortCircuit    \* the last pipeline step of the turn returned early

vars ==
    << mapping, loadIdx, regResult, active, curState, agentStatus, confirm,
       drv, handleCalls, nProcess, nResume, statusBefore, declinedOnly,
       statusAtEntry, lastState, lastStatus, rounds, pc, status, step,
       prev_status, createPolicy, calls, statusAfterResponse,
       statusAfterParse, respRes, parseRes, execRes, computed,
       stepAtUpdateStatus, statusHist, shortCircuit >>

registryVars == << mapping, loadIdx, regResult >>

agentVars ==
    << active, curState, agentStatus, confirm, drv, handleCalls, nProcess,
       nResume, statusBefore, declinedOnly, statusAtEntry, lastState,
       lastStatus, rounds, shortCircuit >>

procVars ==
    << pc, status, step, prev_status, createPolicy, calls,
       statusAfterResponse, statusAfterParse, respRes, parseRes, execRes,
       computed, stepAtUpdateStatus, statusHist >>

\* Everything of the processor but its position, status and call log.
procRest ==
    << step, prev_status, createPolicy, statusAfterResponse,
       statusAfterParse, respRes, parseRes, execRes, computed,
       stepAtUpdateStatus >>

\* ------------------------------------------------------------- registry
\* AgentStateManager.register(cls): fails when name(cls) is already taken.
register(cls) ==
    IF name(cls) \in DOMAIN mapping
    THEN /\ regResult' = "ConfigurationError"
         /\ mapping' = mapping
    ELSE /\ regResult' = "ok"
         /\ mapping' = [n \in DOMAIN mapping \cup {name(cls)} |->
                          IF n = name(cls) THEN cls ELSE mapping[n]]

\* AgentStateManager.get_state(status): the registered class, else none_state.
get_state(s) == IF s \in DOMAIN mapping THEN mapping[s] ELSE none_state

\* The default next_state instantiating the class without the agent.
DefaultNextState_noarg(s) == Instantiate(get_state(s), 0)

\* AppAgentState.next_state: look the status up, instantiate on self.agent.
DefaultNextState(s) == Instantiate(get_state(s), 1)

\* next_state with FailAppAgentState left to inherit the status lookup.
next_state_lookup(cls, s) ==
    IF cls \in HandOffClasses \ {"FailAppAgentState"}
    THEN FixedNextState(cls)
    ELSE Instantiate(get_state(s), 1)

\* state.next_state(agent), by class of the state.
next_state(cls, s) ==
    IF cls \in HandOffClasses THEN FixedNextState(cls) ELSE DefaultNextState(s)

Loaded == loadIdx > Len(DecoratedClasses)

\* Import of app_agent_state.py: each decorator registers its class.
LoadModule ==
    /\ ~Loaded
    /\ register(DecoratedClasses[loadIdx])
    /\ loadIdx' = loadIdx + 1
    /\ UNCHANGED << agentVars, procVars >>

\* A further register call for a class once the module is loaded, before
\* the driver starts.
RegisterAgain ==
    /\ Loaded
    /\ drv = "handle"
    /\ rounds = 0
    /\ handleCalls = 0
    /\ \E cls \in AppClasses : register(cls)
    /\ UNCHANGED << loadIdx, agentVars, procVars >>

\* ------------------------------------------------------------- pipeline
\* The statuses the abstract stages write.
StageStatuses == {"ERROR", "FINISH", "BOGUS"}

\* The status an abstract stage leaves: untouched or one it writes.
StageEffect(s) == {s} \cup StageStatuses

\* What the model remembers of a status read at a check point.
Snapshot(s) == IF s = "ERROR" THEN "ERROR" ELSE "other"

\* BaseProcessor.__init__ starting _status at "CONTINUE" instead of
\* prev_status.
NewProcessor_continue(prev, create) ==
    /\ pc' = "print_step_info"
    /\ status' = "CONTINUE"
    /\ prev_status' = prev
    /\ step' = 0
    /\ createPolicy' = create
    /\ calls' = << >>
    /\ statusAfterResponse' = "unset"
    /\ statusAfterParse' = "unset"
    /\ respRes' = "none"
    /\ parseRes' = "none"
    /\ execRes' = "none"
    /\ computed' = "unset"
    /\ stepAtUpdateStatus' = -1
    /\ statusHist' = "untouched"

\* BaseProcessor.__init__ as run by AppAgent.process.
NewProcessor(prev, create) ==
    /\ pc' = "print_step_info"
    /\ status' = prev
    /\ prev_status' = prev
    /\ step' = 0
    /\ createPolicy' = create
    /\ calls' = << >>
    /\ statusAfterResponse' = "unset"
    /\ statusAfterParse' = "unset"
    /\ respRes' = "none"
    /\ parseRes' = "none"
    /\ execRes' = "none"
    /\ computed' = "unset"
    /\ stepAtUpdateStatus' = -1
    /\ statusHist' = "untouched"

\* The history of _status after a stage took it from old to new: untouched,
\* written, or written with ERROR.
Hist(h, old, new) ==
    IF new = old THEN h
    ELSE IF new = "ERROR" THEN "error_written"
    ELSE IF h = "error_written" THEN h
    ELSE "written"

\* A stage with an abstract body: logs the call, may set the status.
Stage(here, next) ==
    /\ pc = here
    /\ calls' = Append(calls, here)
    /\ \E s \in StageEffect(status) : status' = s
    /\ statusHist' = Hist(statusHist, status, status')
    /\ pc' = next

print_step_info ==
    /\ Stage("print_step_info", "capture_screenshot")
    /\ UNCHANGED << registryVars, agentVars, procRest >>

capture_screenshot ==
    /\ Stage("capture_screenshot", "get_control_info")
    /\ UNCHANGED << registryVars, agentVars, procRest >>

get_control_info ==
    /\ Stage("get_control_info", "get_prompt_message")
    /\ UNCHANGED << registryVars, agentVars, procRest >>

get_prompt_message ==
    /\ Stage("get_prompt_message", "get_response")
    /\ UNCHANGED << registryVars, agentVars, procRest >>

\* A stage that can fail: a failure sets the status to ERROR.
FailingStage(here, next, out) ==
    /\ pc = here
    /\ calls' = Append(calls, here)
    /\ \E s \in StageEffect(status) :
          status' = IF out = "fail" THEN "ERROR" ELSE s
    /\ statusHist' = Hist(statusHist, status, status')
    /\ pc' = next

get_response ==
    /\ \E out \in {"ok", "fail"} :
          /\ FailingStage("get_response", "checkA", out)
          /\ respRes' = out
    /\ statusAfterResponse' = Snapshot(status')
    /\ UNCHANGED << registryVars, agentVars, step, prev_status, createPolicy,
                    statusAfterParse, parseRes, execRes, computed,
                    stepAtUpdateStatus >>

\* process() without the return after get_response.
checkA_noreturn ==
    /\ pc = "checkA"
    /\ calls' = Append(calls, "is_error")
    /\ pc' = "parse_response"
    /\ UNCHANGED << registryVars, agentVars, status, statusHist, procRest >>

\* "if self.is_error(): return" after get_response
checkA ==
    /\ pc = "checkA"
    /\ calls' = Append(calls, "is_error")
    /\ pc' = IF is_error(status) THEN "returned" ELSE "parse_response"
    /\ UNCHANGED << registryVars, agentVars, status, statusHist, procRest >>

parse_response ==
    /\ \E out \in {"ok", "fail"} :
          /\ FailingStage("parse_response", "checkB", out)
          /\ parseRes' = out
    /\ statusAfterParse' = Snapshot(status')
    /\ UNCHANGED << registryVars, agentVars, step, prev_status, createPolicy,
                    statusAfterResponse, respRes, execRes, computed,
                    stepAtUpdateStatus >>

\* process() without the return after parse_response.
checkB_noreturn ==
    /\ pc = "checkB"
    /\ calls' = Append(calls, "is_error")
    /\ pc' = "execute_action"
    /\ UNCHANGED << registryVars, agentVars, status, statusHist, procRest >>

\* "if self.is_error(): return" after parse_response
checkB ==
    /\ pc = "checkB"
    /\ calls' = Append(calls, "is_error")
    /\ pc' = IF is_error(status) THEN "returned" ELSE "execute_action"
    /\ UNCHANGED << registryVars, agentVars, status, statusHist, procRest >>

\* process() with a third "if self.is_error(): return" after execute_action.
execute_action_checked ==
    /\ pc = "execute_action"
    /\ calls' = Append(calls, "execute_action")
    /\ \E out \in {"ok", "fail"} :
          /\ execRes' = out
          /\ \E s \in StageEffect(status) :
                status' = IF out = "fail" THEN "ERROR" ELSE s
    /\ statusHist' = Hist(statusHist, status, status')
    /\ pc' = IF is_error(status') THEN "returned" ELSE "update_memory"
    /\ UNCHANGED << registryVars, agentVars, step, prev_status, createPolicy,
                    statusAfterResponse, statusAfterParse, respRes, parseRes,
                    computed, stepAtUpdateStatus >>

execute_action ==
    /\ \E out \in {"ok", "fail"} :
          /\ FailingStage("execute_action", "update_memory", out)
          /\ execRes' = out
    /\ UNCHANGED << registryVars, agentVars, step, prev_status, createPolicy,
                    statusAfterResponse, statusAfterParse, respRes, parseRes,
                    computed, stepAtUpdateStatus >>

\* update_memory incrementing the step counter as well.
update_memory_counts ==
    /\ Stage("update_memory", "should_create_appagent")
    /\ step' = step + 1
    /\ UNCHANGED << registryVars, agentVars, prev_status, createPolicy,
                    statusAfterResponse, statusAfterParse, respRes, parseRes,
                    execRes, computed, stepAtUpdateStatus >>

update_memory ==
    /\ Stage("update_memory", "should_create_appagent")
    /\ UNCHANGED << registryVars, agentVars, procRest >>

\* process() calling create_app_agent whatever the predicate returns.
should_create_appagent_always ==
    /\ pc = "should_create_appagent"
    /\ calls' = Append(calls, "should_create_appagent")
    /\ pc' = "create_app_agent"
    /\ UNCHANGED << registryVars, agentVars, status, statusHist, procRest >>

\* "if self.should_create_appagent(): self.create_app_agent()"
should_create_appagent ==
    /\ pc = "should_create_appagent"
    /\ calls' = Append(calls, "should_create_appagent")
    /\ pc' = IF createPolicy THEN "create_app_agent"
                             ELSE "update_step_and_status"
    /\ UNCHANGED << registryVars, agentVars, status, statusHist, procRest >>

create_app_agent ==
    /\ Stage("create_app_agent", "update_step_and_status")
    /\ UNCHANGED << registryVars, agentVars, procRest >>

\* update_step_and_status without the increment of _step.
update_step_and_status_noinc ==
    /\ pc = "update_step_and_status"
    /\ calls' = Append(calls, "update_step_and_status")
    /\ pc' = "update_status"
    /\ UNCHANGED << registryVars, agentVars, status, statusHist, procRest >>

\* update_step_and_status up to its call of update_status
update_step_and_status ==
    /\ pc = "update_step_and_status"
    /\ calls' = Append(calls, "update_step_and_status")
    /\ step' = step + 1
    /\ pc' = "update_status"
    /\ UNCHANGED << registryVars, agentVars, status, statusHist,
                    prev_status, createPolicy, statusAfterResponse,
                    statusAfterParse, respRes, parseRes, execRes, computed,
                    stepAtUpdateStatus >>

\* The abstract update_status, then process returns.
update_status ==
    /\ pc = "update_status"
    /\ stepAtUpdateStatus' = step
    /\ \E s \in StageEffect(status) :
          /\ status' = s
          /\ computed' = s
    /\ statusHist' = Hist(statusHist, status, status')
    /\ pc' = "returned"
    /\ UNCHANGED << registryVars, agentVars, step, prev_status, createPolicy,
                    calls, statusAfterResponse, statusAfterParse, respRes,
                    parseRes, execRes >>

\* No processor exists: the scratch state of a discarded processor.
NoProcessor ==
    /\ pc' = "idle"
    /\ status' = ""
    /\ prev_status' = ""
    /\ step' = 0
    /\ createPolicy' = FALSE
    /\ calls' = << >>
    /\ statusAfterResponse' = "unset"
    /\ statusAfterParse' = "unset"
    /\ respRes' = "none"
    /\ parseRes' = "none"
    /\ execRes' = "none"
    /\ computed' = "unset"
    /\ stepAtUpdateStatus' = -1
    /\ statusHist' = "untouched"

\* ---------------------------------------------------------------- agent
\* The driver may call handle on the state the app agent holds.
CanHandle ==
    /\ Loaded
    /\ active = "app"
    /\ drv \in {"handle", "handled"}
    /\ handleCalls < MaxHandleCalls

\* ContinueAppAgentState.handle calling agent.process_resume for
\* agent.process.
handle_Continue_resume ==
    /\ CanHandle
    /\ curState \in {"ContinueAppAgentState", "ScreenshotAppAgentState"}
    /\ handleCalls' = handleCalls + 1
    /\ statusBefore' = agentStatus
    /\ lastState' = "none"
    /\ lastStatus' = "none"
    /\ nProcess' = 0
    /\ nResume' = 1
    /\ drv' = "processing"
    /\ shortCircuit' = FALSE
    /\ \E create \in BOOLEAN : NewProcessor(agentStatus, create)
    /\ UNCHANGED << registryVars, active, curState, agentStatus, confirm,
                    declinedOnly, statusAtEntry, rounds >>

\* ContinueAppAgentState.handle (inherited by ScreenshotAppAgentState):
\* agent.process(context), which builds a processor on the agent's status.
handle_Continue ==
    /\ CanHandle
    /\ curState \in {"ContinueAppAgentState", "ScreenshotAppAgentState"}
    /\ handleCalls' = handleCalls + 1
    /\ statusBefore' = agentStatus
    /\ lastState' = "none"
    /\ lastStatus' = "none"
    /\ nProcess' = 1
    /\ nResume' = 0
    /\ drv' = "processing"
    /\ shortCircuit' = FALSE
    /\ \E create \in BOOLEAN : NewProcessor(agentStatus, create)
    /\ UNCHANGED << registryVars, active, curState, agentStatus, confirm,
                    declinedOnly, statusAtEntry,
                    rounds >>

\* AppAgent.process after the processor returned: fold its status back.
process_return ==
    /\ drv = "processing"
    /\ pc = "returned"
    /\ agentStatus' = status
    /\ shortCircuit' = (computed = "unset")
    /\ drv' = "handled"
    /\ NoProcessor
    /\ UNCHANGED << registryVars, active, curState, confirm, handleCalls,
                    nProcess, nResume, statusBefore, declinedOnly,
                    statusAtEntry, lastState, lastStatus, rounds >>

\* ConfirmAppAgentState.handle with the test of _confirm inverted.
handle_Confirm_inverted ==
    /\ CanHandle
    /\ curState = "ConfirmAppAgentState"
    /\ handleCalls' = handleCalls + 1
    /\ statusBefore' = agentStatus
    /\ lastState' = "none"
    /\ lastStatus' = "none"
    /\ nProcess' = 0
    /\ \E c \in UserConfirmResults :
          /\ confirm' = c
          /\ declinedOnly' = (declinedOnly /\ ~Truthy(c))
          /\ IF ~Truthy(c)
             THEN /\ nResume' = 1
                  /\ \E s \in StatusStrings : agentStatus' = s
             ELSE /\ nResume' = 0
                  /\ agentStatus' = agentStatus
    /\ shortCircuit' = FALSE
    /\ drv' = "handled"
    /\ UNCHANGED << registryVars, active, curState, statusAtEntry, rounds,
                    procVars >>

\* ConfirmAppAgentState.handle
handle_Confirm ==
    /\ CanHandle
    /\ curState = "ConfirmAppAgentState"
    /\ handleCalls' = handleCalls + 1
    /\ statusBefore' = agentStatus
    /\ lastState' = "none"
    /\ lastStatus' = "none"
    /\ nProcess' = 0
    /\ \E c \in UserConfirmResults :
          /\ confirm' = c
          /\ declinedOnly' = (declinedOnly /\ ~Truthy(c))
          /\ IF Truthy(c)
             THEN /\ nResume' = 1
                  /\ \E s \in StatusStrings : agentStatus' = s
             ELSE /\ nResume' = 0
                  /\ agentStatus' = agentStatus
    /\ shortCircuit' = FALSE
    /\ drv' = "handled"
    /\ UNCHANGED << registryVars, active, curState, statusAtEntry, rounds,
                    procVars >>

\* AppAgentState.handle and PendingAppAgentState.handle: pass
handle_default ==
    /\ CanHandle
    /\ curState \notin {"ContinueAppAgentState", "ScreenshotAppAgentState",
                        "ConfirmAppAgentState"}
    /\ handleCalls' = handleCalls + 1
    /\ statusBefore' = agentStatus
    /\ lastState' = "none"
    /\ lastStatus' = "none"
    /\ nProcess' = 0
    /\ nResume' = 0
    /\ drv' = "handled"
    /\ UNCHANGED << registryVars, active, curState, agentStatus, confirm,
                    declinedOnly, statusAtEntry, rounds, shortCircuit,
                    procVars >>

\* The driver's transition: next_state, next_agent, assignment, round end.
Transition ==
    /\ Loaded
    /\ active = "app"
    /\ drv = "handled"
    /\ lastState' = curState
    /\ lastStatus' = agentStatus
    /\ LET ns == next_state(curState, agentStatus)
           na == next_agent(curState)
       IN  IF ns = "TypeError"
           THEN /\ drv' = "failed"
                /\ UNCHANGED << active, curState, confirm, handleCalls,
                                declinedOnly, statusAtEntry, nProcess,
                                nResume, statusBefore >>
           ELSE /\ active' = na
                /\ curState' = ns
                /\ confirm' = "None"
                /\ handleCalls' = 0
                /\ declinedOnly' = TRUE
                /\ statusAtEntry' = agentStatus
                /\ statusBefore' = agentStatus
                /\ nProcess' = 0
                /\ nResume' = 0
                /\ drv' = IF is_round_end(curState) THEN "roundEnd"
                          ELSE IF na = "host" THEN "host" ELSE "handle"
    /\ UNCHANGED << registryVars, agentStatus, rounds, shortCircuit,
                    procVars >>

\* The host side gives the app agent a state and a status for a new turn.
host_dispatch ==
    /\ Loaded
    /\ drv \in {"host", "roundEnd"}
    /\ rounds < MaxRounds
    /\ rounds' = rounds + 1
    /\ active' = "app"
    /\ \E cls \in AppClasses : curState' = cls
    /\ \E s \in StatusStrings :
          /\ agentStatus' = s
          /\ statusAtEntry' = s
          /\ statusBefore' = s
    /\ confirm' = "None"
    /\ handleCalls' = 0
    /\ declinedOnly' = TRUE
    /\ nProcess' = 0
    /\ nResume' = 0
    /\ lastState' = "none"
    /\ lastStatus' = "none"
    /\ shortCircuit' = FALSE
    /\ drv' = "handle"
    /\ UNCHANGED << registryVars, procVars >>

\* ------------------------------------------------------- specification
Init ==
    /\ mapping = << >>
    /\ loadIdx = 1
    /\ regResult = "none"
    /\ active = "app"
    /\ curState = "ContinueAppAgentState"
    /\ agentStatus = "CONTINUE"
    /\ confirm = "None"
    /\ drv = "handle"
    /\ handleCalls = 0
    /\ nProcess = 0
    /\ nResume = 0
    /\ statusBefore = "CONTINUE"
    /\ declinedOnly = TRUE
    /\ statusAtEntry = "CONTINUE"
    /\ lastState = "none"
    /\ lastStatus = "none"
    /\ rounds = 0
    /\ pc = "idle"
    /\ status = ""
    /\ step = 0
    /\ prev_status = ""
    /\ createPolicy = FALSE
    /\ calls = << >>
    /\ statusAfterResponse = "unset"
    /\ statusAfterParse = "unset"
    /\ respRes = "none"
    /\ parseRes = "none"
    /\ execRes = "none"
    /\ computed = "unset"
    /\ stepAtUpdateStatus = -1
    /\ statusHist = "untouched"
    /\ shortCircuit = FALSE

Next ==
    \/ LoadModule
    \/ RegisterAgain
    \/ handle_Continue
    \/ print_step_info
    \/ capture_screenshot
    \/ get_control_info
    \/ get_prompt_message
    \/ get_response
    \/ checkA
    \/ parse_response
    \/ checkB
    \/ execute_action
    \/ update_memory
    \/ should_create_appagent
    \/ create_app_agent
    \/ update_step_and_status
    \/ update_status
    \/ process_return
    \/ handle_Confirm
    \/ handle_default
    \/ Transition
    \/ host_dispatch

Spec == Init /\ [][Next]_vars

\* ------------------------------------------------------------ properties
\* How often a stage occurs in the call log of the invocation.
Count(stage) == Cardinality({i \in DOMAIN calls : calls[i] = stage})

Invoked(stage) == Count(stage) > 0

NonHandOffClasses == AppClasses \ HandOffClasses

\* C1: when the status is ERROR at the return of get_response, the
\* invocation of process() invokes none of parse_response, execute_action,
\* update_memory, create_app_agent and update_step_and_status.
C1_ShortCircuitA ==
    statusAfterResponse = "ERROR" =>
        /\ \A st \in {"parse_response", "execute_action", "update_memory",
                      "create_app_agent", "update_step_and_status"} :
              ~Invoked(st)
        /\ computed = "unset"
        /\ pc \in {"checkA", "returned"}

C1_Witness ==
    /\ pc = "returned"
    /\ statusAfterResponse = "ERROR"
    /\ respRes = "fail"
    /\ Len(calls) = 6

\* C2: when the response is obtained, parsed and applied successfully, the
\* twelve stages run once each in the fixed order, the step counter goes
\* from 0 to 1 and the final status is the one update_status computed.
C2_HappyPath ==
    (pc = "returned" /\ respRes = "ok" /\ parseRes = "ok" /\ execRes = "ok")
        => /\ calls = StageOrder(createPolicy)
           /\ Len(StageOrder(FALSE)) = 12
           /\ step = 1
           /\ stepAtUpdateStatus = 1
           /\ status = computed

C2_Witness ==
    /\ pc = "returned"
    /\ respRes = "ok" /\ parseRes = "ok" /\ execRes = "ok"
    /\ prev_status = "CONTINUE"
    /\ ~createPolicy
    /\ Len(calls) = 12
    /\ step = 1
    /\ status = "FINISH"

\* C3: when check A passed and the status is ERROR at the return of
\* parse_response, execute_action, update_memory, create_app_agent and
\* update_step_and_status are not invoked, and stages 1 to 5 and
\* parse_response were each invoked exactly once.
C3_ShortCircuitB ==
    statusAfterParse = "ERROR" =>
        /\ statusAfterResponse = "other"
        /\ \A st \in {"execute_action", "update_memory", "create_app_agent",
                      "update_step_and_status"} :
              ~Invoked(st)
        /\ computed = "unset"
        /\ \A st \in {"print_step_info", "capture_screenshot",
                      "get_control_info", "get_prompt_message",
                      "get_response", "parse_response"} :
              Count(st) = 1
        /\ pc \in {"checkB", "returned"}

C3_Witness ==
    /\ pc = "returned"
    /\ statusAfterParse = "ERROR"
    /\ parseRes = "fail"
    /\ Len(calls) = 8

\* C4: lookup of a status that is no registered name gives the None app
\* state class, and next_state of a non-hand-off state yields a state for
\* every status of the agent (the transition never fails).
C4_LookupTotal ==
    /\ Loaded =>
          \A s \in StatusStrings :
              s \notin {name(c) : c \in AppClasses}
                  => get_state(s) = "NoneAppAgentState"
    /\ lastState \in NonHandOffClasses =>
          /\ drv # "failed"
          /\ curState \in AppClasses

\* C5: once the module is loaded the nine variants have pairwise distinct
\* names and lookup of each variant's name gives that variant; a register
\* call for a name already registered fails and leaves the mapping as it is.
C5_RegistryRoundTrip ==
    [][ /\ Loaded' =>
            /\ \A c1, c2 \in AppClasses : c1 # c2 => name(c1)' # name(c2)'
            /\ \A c \in AppClasses : get_state(name(c))' = c
            /\ Cardinality(DOMAIN mapping') = 9
        /\ Loaded =>
            /\ mapping' = mapping
            /\ regResult' \in {regResult, "ConfigurationError"}
      ]_vars

C5_Witness ==
    /\ Loaded
    /\ regResult = "ConfigurationError"
    /\ Cardinality(DOMAIN mapping) = 9
    /\ get_state("SCREENSHOT") = "ScreenshotAppAgentState"

\* C6: a transition out of FINISH, ERROR, FAIL, None or SWITCH makes the
\* host agent the next agent whatever the status; a transition out of
\* CONTINUE, SCREENSHOT, PENDING or CONFIRM keeps the app agent.
C6_NextAgent ==
    (lastState \in AppClasses /\ drv # "failed") =>
        /\ lastState \in {"FinishAppAgentState", "ErrorAppAgentState",
                          "FailAppAgentState", "NoneAppAgentState",
                          "SwitchAppAgentState"} => active = "host"
        /\ lastState \in {"ContinueAppAgentState", "ScreenshotAppAgentState",
                          "PendingAppAgentState", "ConfirmAppAgentState"}
              => active = "app"

C6_Witness ==
    /\ lastState = "SwitchAppAgentState"
    /\ lastStatus = "CONTINUE"
    /\ active = "host"

\* C7: the state after SWITCH is Host.Continue, after FINISH, ERROR and
\* FAIL Host.Finish and after None Host.None, whatever the agent's status.
C7_FixedWiring ==
    /\ lastState = "SwitchAppAgentState" => curState = "ContinueHostAgentState"
    /\ lastState = "FinishAppAgentState" => curState = "FinishHostAgentState"
    /\ lastState = "ErrorAppAgentState"  => curState = "FinishHostAgentState"
    /\ lastState = "FailAppAgentState"   => curState = "FinishHostAgentState"
    /\ lastState = "NoneAppAgentState"   => curState = "NoneHostAgentState"
    /\ lastState \in HandOffClasses => drv # "failed"

C7_Witness ==
    /\ lastState = "FailAppAgentState"
    /\ lastStatus = "CONTINUE"
    /\ curState = "FinishHostAgentState"

\* C8: a transition ends the round exactly when the state just executed is
\* ERROR or None; the other seven app states never end it.
C8_RoundEnd ==
    (lastState \in AppClasses /\ drv # "failed") =>
        (drv = "roundEnd" <=>
            lastState \in {"ErrorAppAgentState", "NoneAppAgentState"})

C8_Witness ==
    /\ lastState = "ErrorAppAgentState"
    /\ drv = "roundEnd"

\* C9: a declined ConfirmAppAgentState.handle leaves the agent's status and
\* state as they were and calls neither process nor process_resume, however
\* often it is repeated; an accepted one calls process_resume once and
\* process never.
C9_ConfirmHandle ==
    [][ (curState = "ConfirmAppAgentState" /\ handleCalls' = handleCalls + 1)
          => /\ nProcess' = 0
             /\ curState' = curState
             /\ active' = active
             /\ ~Truthy(confirm') =>
                   /\ agentStatus' = agentStatus
                   /\ nResume' = 0
             /\ declinedOnly' => agentStatus' = statusAtEntry'
             /\ Truthy(confirm') => nResume' = 1
      ]_vars

C9_Witness ==
    /\ curState = "ConfirmAppAgentState"
    /\ drv = "handled"
    /\ handleCalls >= 2
    /\ declinedOnly
    /\ confirm = "False"
    /\ agentStatus = "CONFIRM"

C11_ContinueThenFinish ==
    /\ (curState = "ContinueAppAgentState" /\ drv = "processing")
          => nProcess = 1
    /\ (lastState = "ContinueAppAgentState" /\ lastStatus \in AppAgentStatus)
          => /\ drv = "handle"
             /\ active = "app"
             /\ curState \in AppClasses
             /\ name(curState) = lastStatus
    /\ lastState = "FinishAppAgentState"
          => /\ active = "host"
             /\ curState = "FinishHostAgentState"
             /\ drv = "host"

\* C12: handle of CONTINUE and SCREENSHOT calls agent.process once and
\* nothing else; handle of SWITCH, PENDING, FINISH, ERROR, FAIL and None
\* calls neither process nor process_resume and leaves the status; handle
\* of CONFIRM never calls process.
C12_EntryActions ==
    [][ handleCalls' = handleCalls + 1
          => /\ curState' = curState
             /\ active' = active
             /\ curState \in {"ContinueAppAgentState",
                              "ScreenshotAppAgentState"}
                   => /\ nProcess' = 1
                      /\ nResume' = 0
                      /\ agentStatus' = agentStatus
                      /\ pc' = "print_step_info"
             /\ curState \in {"SwitchAppAgentState", "PendingAppAgentState",
                              "FinishAppAgentState", "ErrorAppAgentState",
                              "FailAppAgentState", "NoneAppAgentState"}
                   => /\ nProcess' = 0
                      /\ nResume' = 0
                      /\ agentStatus' = agentStatus
                      /\ pc' = "idle"
             /\ curState = "ConfirmAppAgentState" => nProcess' = 0
      ]_vars

C12_Witness ==
    /\ curState = "ScreenshotAppAgentState"
    /\ drv = "processing"
    /\ pc = "print_step_info"
    /\ nProcess = 1
    /\ nResume = 0

\* C13 as stated: when execute_action fails, update_memory,
\* create_app_agent and update_step_and_status are not invoked.
C13_ExecShortCircuit ==
    execRes = "fail" =>
        \A st \in {"update_memory", "create_app_agent",
                   "update_step_and_status"} : ~Invoked(st)

\* C13 amended: a failure of execute_action does not end the invocation;
\* update_memory and update_step_and_status are still invoked once each,
\* create_app_agent when the predicate holds, and the step is counted.
C13_ExecNoShortCircuit ==
    execRes = "fail" =>
        /\ pc \in {"update_memory", "should_create_appagent",
                   "create_app_agent", "update_step_and_status",
                   "update_status", "returned"}
        /\ pc = "returned" =>
              /\ Count("update_memory") = 1
              /\ Count("update_step_and_status") = 1
              /\ Count("create_app_agent") = (IF createPolicy THEN 1 ELSE 0)
              /\ step = 1
              /\ computed # "unset"

C13_Witness ==
    /\ pc = "returned"
    /\ execRes = "fail"
    /\ Invoked("update_memory")
    /\ Invoked("update_step_and_status")
    /\ step = 1

\* C14: a pipeline step of CONTINUE or SCREENSHOT that returned early
\* leaves the agent with status ERROR; the next state is App.ERROR, in
\* which no pipeline runs, and the transition out of it ends the round with
\* the host agent in Host.Finish.
C14_ErrorPropagation ==
    /\ (shortCircuit /\ drv = "handled")
          => /\ agentStatus = "ERROR"
             /\ pc = "idle"
    /\ (shortCircuit /\ lastState \in {"ContinueAppAgentState",
                                       "ScreenshotAppAgentState"})
          => /\ lastStatus = "ERROR"
             /\ curState = "ErrorAppAgentState"
             /\ active = "app"
             /\ drv = "handle"
    /\ (curState = "ErrorAppAgentState" /\ active = "app")
          => /\ pc = "idle"
             /\ nProcess = 0
             /\ nResume = 0
    /\ lastState = "ErrorAppAgentState"
          => /\ drv = "roundEnd"
             /\ active = "host"
             /\ curState = "FinishHostAgentState"

C14_Witness ==
    /\ rounds = 0
    /\ shortCircuit
    /\ lastState = "ErrorAppAgentState"
    /\ drv = "roundEnd"
    /\ active = "host"
    /\ curState = "FinishHostAgentState"

IsPrefix(a, b) ==
    /\ Len(a) <= Len(b)
    /\ \A i \in 1..Len(a) : a[i] = b[i]

\* C15: the stages invoked form a prefix of the fixed order with no stage
\* twice; stages 1 to 5 are always invoked; create_app_agent is invoked
\* only when should_create_appagent returns true, after update_memory and
\* before update_step_and_status.
C15_StageOrdering ==
    /\ IsPrefix(calls, StageOrder(createPolicy))
    /\ \A st \in {"print_step_info", "capture_screenshot",
                  "get_control_info", "get_prompt_message", "get_response",
                  "parse_response", "execute_action", "update_memory",
                  "create_app_agent", "update_step_and_status"} :
          Count(st) <= 1
    /\ pc = "returned" =>
          \A st \in {"print_step_info", "capture_screenshot",
                     "get_control_info", "get_prompt_message",
                     "get_response"} : Count(st) = 1
    /\ Invoked("create_app_agent") =>
          /\ createPolicy
          /\ Invoked("update_memory")
          /\ calls[12] = "create_app_agent"
    /\ ~createPolicy => ~Invoked("create_app_agent")

C15_Witness ==
    /\ pc = "returned"
    /\ createPolicy
    /\ Len(calls) = 13
    /\ calls[12] = "create_app_agent"
    /\ calls[13] = "update_step_and_status"

\* C16: for each registered status code the lookup-then-instantiate path
\* of next_state yields the state of that code bound to the agent and
\* never fails, CONFIRM included.
C16_ConstructRegistered ==
    (lastState \in NonHandOffClasses /\ lastStatus \in AppAgentStatus)
        => /\ drv # "failed"
           /\ curState = get_state(lastStatus)

\* C17: the agent that runs always holds a state of its own machine: the
\* app agent an app state, the host agent one of Host.Continue, Host.Finish
\* and Host.None.
C17_RoleConsistent ==
    /\ RoleOf(curState) = active
    /\ active = "host" =>
          curState \in {"ContinueHostAgentState", "FinishHostAgentState",
                        "NoneHostAgentState"}

C17_Witness ==
    /\ lastState = "FailAppAgentState"
    /\ lastStatus = "PENDING"
    /\ active = "host"
    /\ curState = "FinishHostAgentState"

\* C18: PENDING with status "PENDING" is followed by PENDING again for the
\* same agent without ending the round, and CONFIRM with status "CONFIRM"
\* and a declined confirmation is followed by CONFIRM again.
C18_Absorbing ==
    /\ (lastState = "PendingAppAgentState" /\ lastStatus = "PENDING")
          => /\ curState = "PendingAppAgentState"
             /\ active = "app"
             /\ drv = "handle"
    /\ (lastState = "ConfirmAppAgentState" /\ lastStatus = "CONFIRM")
          => /\ curState = "ConfirmAppAgentState"
             /\ active = "app"
             /\ drv = "handle"

\* C19: _status starts as prev_status; with prev_status "ERROR" and a
\* status no stage touched, process returns after get_response without
\* parse_response even when the model invocation succeeded; with another
\* prev_status and no stage writing ERROR, process never returns early.
C19_InheritedStatus ==
    /\ (pc = "print_step_info") => status = prev_status
    /\ (prev_status = "ERROR" /\ statusHist = "untouched"
          /\ Invoked("get_response"))
          => /\ pc \in {"checkA", "returned"}
             /\ ~Invoked("parse_response")
             /\ computed = "unset"
    /\ (prev_status # "ERROR" /\ statusHist # "error_written"
          /\ pc = "returned")
          => /\ Invoked("update_step_and_status")
             /\ calls = StageOrder(createPolicy)

C19_Witness ==
    /\ pc = "returned"
    /\ prev_status = "ERROR"
    /\ statusHist = "untouched"
    /\ respRes = "ok"
    /\ Len(calls) = 6

\* C20: a new processor has step 0; the step is 1 exactly when
\* update_step_and_status was reached and 0 otherwise; it is already 1
\* when update_status is invoked, and no other stage changes it.
C20_StepCounter ==
    /\ pc = "print_step_info" => step = 0
    /\ step = (IF Invoked("update_step_and_status") THEN 1 ELSE 0)
    /\ pc = "update_status" => step = 1
    /\ stepAtUpdateStatus # -1 => stepAtUpdateStatus = 1

C20_Witness ==
    /\ pc = "returned"
    /\ statusAfterParse = "ERROR"
    /\ step = 0
    /\ ~Invoked("update_step_and_status")

====
